---------------------------- MODULE Spec2Model ----------------------------
(***************************************************************************)
(* The last-rank finder of wom-leagues-scraper (src/last_ranked.py): for   *)
(* every metric of NOT_ALL_METRICS, find_last_players brackets the last    *)
(* occupied rank of the hiscores (new_bounds), narrows the bracket by      *)
(* binary search (binary_search), and keeps the ranks it found in the      *)
(* checkpoint file LAST_RANKS_FILE for the next run.                       *)
(*                                                                         *)
(* One behaviour of the model is a sequence of runs of the script against  *)
(* a hiscores table whose last occupied rank (boundary) is chosen by the   *)
(* environment each time a metric's search begins.  A run may be killed    *)
(* from outside at any point, and every fetch may raise.  A run that has   *)
(* saved hands its players to submit_updates of src/main.py.               *)
(*                                                                         *)
(* SpecSteady is the same script on tables that never change, started      *)
(* without a checkpoint file.  SpecMain is the script of src/main.py:      *)
(* fetch_all_leaders collects the leaders of the first METRIC_LIMIT        *)
(* metrics and submit_updates publishes them.                              *)
(***************************************************************************)
EXTENDS Integers, Sequences, FiniteSets, TLC

---------------------------------------------------------------------------
(* Configuration, src/last_ranked.py lines 14-30.                          *)

RANK_SKIP == 25000

MAX_RANK == 2000000

(* Imported from main (src/last_ranked.py line 8); the hiscores serve 25   *)
(* players per page.                                                       *)
PLAYERS_PER_PAGE == 25

(* The code configures one metric; the list is widened here by the metric  *)
(* its TODO announces, so that the loop over the metrics has a successor.  *)
NOT_ALL_METRICS == <<"Bryophyta", "Sailing">>

(* last_player is declared without a value (line 37).                      *)
Unbound == -1

---------------------------------------------------------------------------
(* The inputs: the boundaries the environment may choose, and the          *)
(* checkpoint files a first run may find.                                  *)

MaxSkips == 1

Anchors == {0, MAX_RANK - RANK_SKIP, MAX_RANK}

Offsets == {0, 1}

(* A table of 1342 players whose checkpoint of the day before is 1300.     *)
Examples == {1300, 1342}

Boundaries ==
    {a + k * RANK_SKIP + d : a \in Anchors, k \in 0..MaxSkips, d \in Offsets}
        \cup Examples

MetricNames == {NOT_ALL_METRICS[i] : i \in 1..Len(NOT_ALL_METRICS)}

(* A JSON object of ranks: a function from some of the metric names.       *)
EmptyDict == [m \in {} |-> 0]

Dicts ==
    UNION {[S -> Boundaries \ {0}] : S \in SUBSET MetricNames}

(* The file is missing, holds a JSON object, or is empty (opened for       *)
(* writing and not yet written).                                           *)
MissingFile == [kind |-> "missing", data |-> EmptyDict]

EmptyFile == [kind |-> "empty", data |-> EmptyDict]

JsonFile(d) == [kind |-> "json", data |-> d]

---------------------------------------------------------------------------
(* fetch_hiscore_players(session, metric, rank) on a table whose last      *)
(* occupied rank is n: up to PLAYERS_PER_PAGE players starting at rank i,  *)
(* as the sequence of their ranks; the empty list past the end.            *)

Max(a, b) == IF a >= b THEN a ELSE b

Min(a, b) == IF a <= b THEN a ELSE b

fetch_hiscore_players(n, i) ==
    LET first == Max(i, 1)
        last == Min(i + PLAYERS_PER_PAGE - 1, n)
    IN  IF i > n \/ last < first
        THEN <<>>
        ELSE [k \in 1..(last - first + 1) |-> first + k - 1]

(* What a fetch can do: answer, or raise (transport or parsing error).     *)
FetchOutcomes == {"answer", "raise"}

---------------------------------------------------------------------------
VARIABLES
    file,          \* content of LAST_RANKS_FILE
    start_file,    \* content of LAST_RANKS_FILE when the run began
    pc,            \* position of the run in find_last_players and main
    halt,          \* "none", or how the run ended abnormally
    last_ranks,    \* find_last_players: the checkpoint mapping in memory
    last_players,  \* find_last_players: ranks of the players found so far
    mi,            \* index into NOT_ALL_METRICS of the current metric
    branch,        \* which call of binary_search serves the current metric
    boundary,      \* last occupied rank of the current metric's table
    new_low,       \* new_bounds
    new_high,      \* new_bounds
    low,           \* binary_search: the parameter low
    high,          \* binary_search: the parameter high
    _low,          \* binary_search
    _high,         \* binary_search
    last_player,   \* binary_search: rank of board[-1], or Unbound
    fetched,       \* <<i>>: the latest fetch of the run was at index i
    rested,        \* asyncio.sleep(DELAY) has elapsed since the latest fetch
    hasty,         \* the latest fetch followed its predecessor without sleep
    expansions,    \* fetches new_bounds has issued for the current metric
    probes,        \* fetches binary_search has issued for the current metric
    steady,        \* the tables' boundaries when they never change, or empty
    io,            \* "none", or the access to the file the system refused
    saves,         \* times the run has written the checkpoint file
    sub,           \* position in submit_updates
    leaders,       \* submit_updates: the list it was called with
    group,         \* the temporary group on WOM
    update,        \* how the update step of submit_updates ended
    attempted,     \* Group.delete has been called
    client,        \* the WOM client
    mpc,           \* position of main.py in main and fetch_all_leaders
    idx,           \* fetch_all_leaders: the loop index i
    metric_leaders,\* fetch_all_leaders: usernames of the leaders kept
    pages,         \* what fetch_leaders did for each metric so far
    slept          \* the indexes i after which asyncio.sleep(DELAY) ran

search_vars == <<new_low, new_high, low, high, _low, _high, last_player>>

fetch_vars == <<fetched, rested, hasty>>

count_vars == <<expansions, probes>>

submit_vars == <<sub, leaders, group, update, attempted, client>>

main_vars == <<mpc, idx, metric_leaders, pages, slept>>

vars == <<file, start_file, pc, halt, last_ranks, last_players, mi, branch,
          boundary, search_vars, fetch_vars, count_vars, steady, io, saves,
          submit_vars, main_vars>>

(* The locals of new_bounds and binary_search and the fetch bookkeeping,   *)
(* as they are before a metric's search.                                   *)
BlankSearch ==
    /\ branch' = "fresh"
    /\ boundary' = 0
    /\ new_low' = 0
    /\ new_high' = 0
    /\ low' = 0
    /\ high' = 0
    /\ _low' = 0
    /\ _high' = 0
    /\ last_player' = Unbound
    /\ fetched' = <<>>
    /\ rested' = TRUE
    /\ hasty' = FALSE
    /\ expansions' = 0
    /\ probes' = 0

(* submit_updates before it is called.                                     *)
BlankSubmit ==
    /\ sub' = "idle"
    /\ leaders' = <<>>
    /\ group' = "none"
    /\ update' = "none"
    /\ attempted' = FALSE
    /\ client' = "none"

(* Memory of a process that has not started yet.                           *)
Blank ==
    /\ last_ranks' = EmptyDict
    /\ last_players' = <<>>
    /\ mi' = 1
    /\ io' = "none"
    /\ saves' = 0
    /\ BlankSearch
    /\ BlankSubmit

InitRun ==
    /\ start_file = file
    /\ pc = "start"
    /\ halt = "none"
    /\ last_ranks = EmptyDict
    /\ last_players = <<>>
    /\ mi = 1
    /\ branch = "fresh"
    /\ boundary = 0
    /\ new_low = 0
    /\ new_high = 0
    /\ low = 0
    /\ high = 0
    /\ _low = 0
    /\ _high = 0
    /\ last_player = Unbound
    /\ fetched = <<>>
    /\ rested = TRUE
    /\ hasty = FALSE
    /\ expansions = 0
    /\ probes = 0
    /\ io = "none"
    /\ saves = 0
    /\ sub = "idle"
    /\ leaders = <<>>
    /\ group = "none"
    /\ update = "none"
    /\ attempted = FALSE
    /\ client = "none"

(* main.py is not running.                                                 *)
IdleMain ==
    /\ mpc = "idle"
    /\ idx = 0
    /\ metric_leaders = <<>>
    /\ pages = <<>>
    /\ slept = {}

(* A first run finds any checkpoint file; the tables change between runs.  *)
Init ==
    /\ file \in {MissingFile} \cup {JsonFile(d) : d \in Dicts}
    /\ steady = EmptyDict
    /\ InitRun
    /\ IdleMain

(* A first run finds no checkpoint file; the tables never change.          *)
InitSteady ==
    /\ file = MissingFile
    /\ steady \in [MetricNames -> Boundaries]
    /\ InitRun
    /\ IdleMain

Running == halt = "none"

(* A fetch at index i is issued: the bookkeeping of the rate limit.        *)
Issue(i) ==
    /\ fetched' = <<i>>
    /\ hasty' = (fetched # <<>> /\ ~rested)

(* An exception leaves find_last_players: nothing catches it there or in   *)
(* main, the process ends where it stands.                                 *)
Raise(error) ==
    /\ halt' = error
    /\ UNCHANGED <<file, start_file, pc, last_ranks, last_players, mi, branch,
                   boundary, search_vars>>

---------------------------------------------------------------------------
(* find_last_players, lines 76-80: load the checkpoint mapping.  An        *)
(* existing file may be refused by the system (OSError); json.load of an   *)
(* empty file raises JSONDecodeError.  Neither is caught.                  *)
LoadRanks ==
    /\ Running
    /\ pc = "start"
    /\ \/ /\ file.kind = "missing"
          /\ last_ranks' = EmptyDict
          /\ pc' = "loop"
          /\ halt' = halt
          /\ io' = io
       \/ /\ file.kind = "json"
          /\ last_ranks' = file.data
          /\ pc' = "loop"
          /\ halt' = halt
          /\ io' = io
       \/ /\ file.kind = "empty"
          /\ halt' = "JSONDecodeError"
          /\ io' = io
          /\ UNCHANGED <<last_ranks, pc>>
       \/ /\ file.kind # "missing"
          /\ halt' = "OSError"
          /\ io' = "read"
          /\ UNCHANGED <<last_ranks, pc>>
    /\ UNCHANGED <<file, start_file, last_players, mi, branch, boundary,
                   search_vars, fetch_vars, count_vars, steady,
                   main_vars, saves,
                   submit_vars>>

(* new_bounds, lines 63-64: the first bracket tried above yesterday's rank *)
InitialBoundsBelow(rank) == <<rank - RANK_SKIP, rank + RANK_SKIP>>

InitialBounds(rank) == <<rank, rank + RANK_SKIP>>

(* find_last_players, line 91, and the default of high, line 33: the       *)
(* bracket searched when yesterday's rank is MAX_RANK.                     *)
CeilingBracketWide(rank) == <<0, MAX_RANK>>

CeilingBracket(rank) == <<rank, MAX_RANK>>

(* The boundaries the current metric's table may have.                     *)
TablesOf(name) ==
    IF DOMAIN steady = {} THEN Boundaries ELSE {steady[name]}

(* find_last_players, lines 85-99: the head of the loop picks the call     *)
(* that serves the metric.  The environment fixes the table's boundary.    *)
NextMetric ==
    /\ Running
    /\ pc = "loop"
    /\ mi <= Len(NOT_ALL_METRICS)
    /\ boundary' \in TablesOf(NOT_ALL_METRICS[mi])
    /\ LET name == NOT_ALL_METRICS[mi]
       IN  IF name \in DOMAIN last_ranks
           THEN LET last_rank == last_ranks[name]
                IN  IF last_rank = MAX_RANK
                    THEN /\ branch' = "ceiling"
                         /\ low' = CeilingBracket(last_rank)[1]
                         /\ high' = CeilingBracket(last_rank)[2]
                         /\ _low' = low'
                         /\ _high' = high'
                         /\ pc' = "binary_search"
                         /\ UNCHANGED <<new_low, new_high>>
                    ELSE /\ branch' = "expanded"
                         /\ new_low' = InitialBounds(last_rank)[1]
                         /\ new_high' = InitialBounds(last_rank)[2]
                         /\ pc' = "new_bounds"
                         /\ UNCHANGED <<low, high, _low, _high>>
           ELSE /\ branch' = "fresh"
                /\ low' = 0
                /\ high' = MAX_RANK
                /\ _low' = low'
                /\ _high' = high'
                /\ pc' = "binary_search"
                /\ UNCHANGED <<new_low, new_high>>
    /\ last_player' = Unbound
    /\ expansions' = 0
    /\ probes' = 0
    /\ UNCHANGED <<file, start_file, halt, last_ranks, last_players, mi,
                   fetch_vars, steady, main_vars, io, saves, submit_vars>>

(* new_bounds, lines 71-72: the bracket moves up by RANK_SKIP.             *)
ExpandedBoundsTwice(lo, hi) == <<lo + 2 * RANK_SKIP, hi + 2 * RANK_SKIP>>

ExpandedBounds(lo, hi) == <<lo + RANK_SKIP, hi + RANK_SKIP>>

(* new_bounds, lines 65-72: one pass of the loop, one fetch, no sleep.     *)
(* The bracket it returns is handed to binary_search (line 97).            *)
NewBoundsStep ==
    /\ Running
    /\ pc = "new_bounds"
    /\ Issue(new_high)
    /\ rested' = FALSE
    /\ expansions' = expansions + 1
    /\ \E outcome \in FetchOutcomes :
          IF outcome = "raise"
          THEN Raise("FetchFailure")
          ELSE LET board == fetch_hiscore_players(boundary, new_high)
               IN  /\ IF board = <<>>
                      THEN /\ low' = new_low
                           /\ high' = new_high
                           /\ _low' = new_low
                           /\ _high' = new_high
                           /\ pc' = "binary_search"
                           /\ UNCHANGED <<new_low, new_high>>
                      ELSE /\ new_low' = ExpandedBounds(new_low, new_high)[1]
                           /\ new_high' = ExpandedBounds(new_low, new_high)[2]
                           /\ UNCHANGED <<low, high, _low, _high, pc>>
                   /\ UNCHANGED <<file, start_file, halt, last_ranks,
                                  last_players, mi, branch, boundary,
                                  last_player>>
    /\ UNCHANGED <<probes, steady, main_vars, io, saves, submit_vars>>

(* binary_search, line 46 and line 53: the half kept after a probe.        *)
LowAfterHitSkipping(mid) == mid + 2

LowAfterHit(mid) == mid + 1

HighAfterMissKeeping(mid) == mid

HighAfterMiss(mid) == mid - 1

(* binary_search, line 50: the page is the last one.                       *)
ShortPageNever(board) == FALSE

ShortPage(board) == Len(board) < PLAYERS_PER_PAGE

(* binary_search, lines 39-55: one pass of the loop.  A short page leaves  *)
(* the loop by break, before the sleep.                                    *)
BinarySearchStep ==
    /\ Running
    /\ pc = "binary_search"
    /\ _low <= _high
    /\ LET mid == (_low + _high) \div 2
       IN  /\ Issue(mid)
           /\ \E outcome \in FetchOutcomes :
                 IF outcome = "raise"
                 THEN /\ Raise("FetchFailure")
                      /\ rested' = FALSE
                 ELSE LET board == fetch_hiscore_players(boundary, mid)
                      IN  /\ IF board # <<>>
                             THEN /\ last_player' = board[Len(board)]
                                  /\ _low' = LowAfterHit(mid)
                                  /\ _high' = _high
                                  /\ IF ShortPage(board)
                                     THEN /\ pc' = "return"
                                          /\ rested' = FALSE
                                     ELSE /\ pc' = pc
                                          /\ rested' = TRUE
                             ELSE /\ _high' = HighAfterMiss(mid)
                                  /\ _low' = _low
                                  /\ last_player' = last_player
                                  /\ pc' = pc
                                  /\ rested' = TRUE
                          /\ UNCHANGED <<file, start_file, halt, last_ranks,
                                         last_players, mi, branch, boundary,
                                         new_low, new_high, low, high>>
    /\ probes' = probes + 1
    /\ UNCHANGED <<expansions, steady, main_vars, io, saves, submit_vars>>

(* binary_search, line 57: return last_player, which no pass may have set. *)
BinarySearchReturn ==
    /\ Running
    /\ \/ pc = "return"
       \/ pc = "binary_search" /\ _low > _high
    /\ IF last_player = Unbound
       THEN /\ halt' = "UnboundLocalError"
            /\ pc' = pc
       ELSE /\ halt' = halt
            /\ pc' = "found"
    /\ UNCHANGED <<file, start_file, last_ranks, last_players, mi, branch,
                   boundary, search_vars, fetch_vars, count_vars, steady,
                   main_vars, io,
                   saves, submit_vars>>

(* find_last_players, lines 91-93 and 101-102: the ranks kept in memory    *)
(* once the metric's player is found.                                      *)
RanksAlwaysStored(ranks, name, rank, br) ==
    [m \in DOMAIN ranks \cup {name} |-> IF m = name THEN rank ELSE ranks[m]]

RanksAfter(ranks, name, rank, br) ==
    IF br = "ceiling"
    THEN ranks
    ELSE [m \in DOMAIN ranks \cup {name} |->
             IF m = name THEN rank ELSE ranks[m]]

RecordResultSaving ==
    /\ Running
    /\ pc = "found"
    /\ last_players' = Append(last_players, last_player)
    /\ last_ranks' =
          RanksAfter(last_ranks, NOT_ALL_METRICS[mi], last_player, branch)
    /\ file' = JsonFile(last_ranks')
    /\ saves' = saves + 1
    /\ mi' = mi + 1
    /\ pc' = "loop"
    /\ UNCHANGED <<start_file, halt, branch, boundary, search_vars,
                   fetch_vars, count_vars, steady, main_vars, io, submit_vars>>

RecordResult ==
    /\ Running
    /\ pc = "found"
    /\ last_players' = Append(last_players, last_player)
    /\ last_ranks' =
          RanksAfter(last_ranks, NOT_ALL_METRICS[mi], last_player, branch)
    /\ mi' = mi + 1
    /\ pc' = "loop"
    /\ UNCHANGED <<file, start_file, halt, branch, boundary, search_vars,
                   fetch_vars, count_vars, steady,
                   main_vars, io, saves, submit_vars>>

(* find_last_players, lines 106-112: nothing catches what open or write    *)
(* raises; the exception leaves find_last_players and main.                *)
WriteErrorSwallowed ==
    /\ halt' = halt
    /\ pc' = "done"

WriteErrorPropagates ==
    /\ halt' = "OSError"
    /\ pc' = pc

(* find_last_players, lines 107-108: open(LAST_RANKS_FILE, "w") truncates  *)
(* the file, unless the system refuses to open it.                         *)
OpenForWrite ==
    /\ Running
    /\ pc = "loop"
    /\ mi > Len(NOT_ALL_METRICS)
    /\ \/ /\ file' = EmptyFile
          /\ pc' = "write"
          /\ UNCHANGED <<halt, io>>
       \/ /\ io' = "write"
          /\ WriteErrorPropagates
          /\ file' = file
    /\ UNCHANGED <<start_file, last_ranks, last_players, mi, branch,
                   boundary, search_vars, fetch_vars, count_vars, steady,
                   main_vars,
                   saves, submit_vars>>

(* find_last_players, lines 109-112: the data reaches the file and the     *)
(* list of players is returned, unless the write fails.                    *)
WriteRanks ==
    /\ Running
    /\ pc = "write"
    /\ \/ /\ file' = JsonFile(last_ranks)
          /\ saves' = saves + 1
          /\ pc' = "done"
          /\ UNCHANGED <<halt, io>>
       \/ /\ io' = "write"
          /\ WriteErrorPropagates
          /\ UNCHANGED <<file, saves>>
    /\ UNCHANGED <<start_file, last_ranks, last_players, mi, branch,
                   boundary, search_vars, fetch_vars, count_vars, steady,
                   main_vars,
                   submit_vars>>

(* The process is killed from outside while find_last_players runs.  The   *)
(* file stays as it is; what the run had found is kept for the record, the *)
(* locals of the search are not.                                           *)
Kill ==
    /\ Running
    /\ pc \notin {"done", "submitted"}
    /\ halt' = "killed"
    /\ BlankSearch
    /\ UNCHANGED <<file, start_file, pc, last_ranks, last_players, mi,
                   steady, main_vars, io, saves, submit_vars>>

---------------------------------------------------------------------------
(* submit_updates of main.py, which both scripts call with what they       *)
(* collected.                                                              *)

(* main of last_ranked.py, lines 120-125, and submit_updates, lines        *)
(* 532-533: the list find_last_players returned is handed over and the     *)
(* client is started.                                                      *)
CallSubmitEarly ==
    /\ Running
    /\ pc = "loop"
    /\ mi > Len(NOT_ALL_METRICS)
    /\ pc' = "submitted"
    /\ sub' = "create"
    /\ leaders' = last_players
    /\ client' = "open"
    /\ UNCHANGED <<file, start_file, halt, last_ranks, last_players, mi,
                   branch, boundary, search_vars, fetch_vars, count_vars,
                   steady, main_vars, io, saves, group, update, attempted>>

CallSubmit ==
    /\ Running
    /\ pc = "done"
    /\ pc' = "submitted"
    /\ sub' = "create"
    /\ leaders' = last_players
    /\ client' = "open"
    /\ UNCHANGED <<file, start_file, halt, last_ranks, last_players, mi,
                   branch, boundary, search_vars, fetch_vars, count_vars,
                   steady, main_vars, io, saves, group, update, attempted>>

(* What the script of last_ranked.py holds while submit_updates runs.      *)
ScriptVars ==
    <<file, start_file, pc, halt, last_ranks, last_players, mi, branch,
      boundary, search_vars, fetch_vars, count_vars, steady,
      main_vars, io, saves>>

(* submit_updates, lines 541-544, and Group.create, lines 229-244: the     *)
(* group is created, or WomError is raised and caught at line 552.         *)
GroupCreate ==
    /\ sub = "create"
    /\ \/ /\ group' = "created"
          /\ sub' = "update"
       \/ /\ group' = group
          /\ sub' = "close"
    /\ UNCHANGED <<ScriptVars, leaders, update, attempted, client>>

(* Group.update, lines 246-270: the three ways it returns, and the         *)
(* exception the awaited request raises when no response arrives.          *)
UpdateOutcomes == {"ok", "no outdated members", "error", "raise"}

(* submit_updates, lines 546-548 and 552-553: after update returns the     *)
(* delete step follows; an exception goes to the except clause.            *)
GroupUpdate ==
    /\ sub = "update"
    /\ \E outcome \in UpdateOutcomes :
          /\ update' = outcome
          /\ sub' = IF outcome = "raise" THEN "close" ELSE "delete"
    /\ UNCHANGED <<ScriptVars, leaders, group, attempted, client>>

(* submit_updates, lines 550-553, and Group.delete, lines 272-283: the     *)
(* group is deleted, or WomError is raised and caught.                     *)
GroupDelete ==
    /\ sub = "delete"
    /\ attempted' = TRUE
    /\ group' \in {"deleted", "created"}
    /\ sub' = "close"
    /\ UNCHANGED <<ScriptVars, leaders, update, client>>

(* submit_updates, lines 554-555: finally, the client is closed.           *)
ClientClose ==
    /\ sub = "close"
    /\ client' = "closed"
    /\ sub' = "returned"
    /\ UNCHANGED <<ScriptVars, leaders, group, update, attempted>>

(* The script is started again (the scheduled invocation).                 *)
NextRun ==
    /\ \/ pc = "submitted" /\ sub = "returned"
       \/ ~Running
    /\ pc' = "start"
    /\ halt' = "none"
    /\ start_file' = file
    /\ Blank
    /\ UNCHANGED <<file, steady, main_vars>>

Next ==
    \/ LoadRanks
    \/ NextMetric
    \/ NewBoundsStep
    \/ BinarySearchStep
    \/ BinarySearchReturn
    \/ RecordResult
    \/ OpenForWrite
    \/ WriteRanks
    \/ Kill
    \/ CallSubmit
    \/ GroupCreate
    \/ GroupUpdate
    \/ GroupDelete
    \/ ClientClose
    \/ NextRun

Spec == Init /\ [][Next]_vars

SpecSteady == InitSteady /\ [][Next]_vars

---------------------------------------------------------------------------
(* main.py: fetch_all_leaders and main.                                    *)

METRIC_LIMIT == 3

(* fetch_all_leaders, line 495: METRIC_LIMIT is set, so it is the limit.   *)
metric_limit == METRIC_LIMIT

(* The usernames the hiscores pages may list, and the rows of a page.      *)
Usernames == {"Zezima", "Lynx Titan", "Hey Jase"}

MaxPage == 2

Pages == UNION {[1..n -> Usernames] : n \in 0..MaxPage}

(* What fetch_leaders can do for a metric: return the leaders parsed from  *)
(* the page (their usernames), or raise while fetching or parsing.         *)
LeaderOutcomes ==
    {[ok |-> TRUE, leaders |-> p] : p \in Pages}
        \cup {[ok |-> FALSE, leaders |-> <<>>]}

(* main.py starts: main, lines 558-562, enters fetch_all_leaders.          *)
InitMain ==
    /\ file = MissingFile
    /\ steady = EmptyDict
    /\ InitRun
    /\ mpc = "loop"
    /\ idx = 0
    /\ metric_leaders = <<>>
    /\ pages = <<>>
    /\ slept = {}

(* fetch_all_leaders, lines 497-499 and 515: the leaders of the page whose *)
(* username is not yet in metric_leaders; the list is extended only after  *)
(* the whole page has been filtered.                                       *)
Unique(found, kept) ==
    LET is_unique(l) == \A k \in 1..Len(kept) : l # kept[k]
    IN  SelectSeq(found, is_unique)

(* fetch_all_leaders, lines 522-526: the sleep of the finally clause.      *)
SleepAfterSuccess(i, ok) == ok /\ i < metric_limit - 1

SleepAfter(i, ok) == i < metric_limit - 1

(* fetch_all_leaders, lines 501-526: one pass of the loop, the try with    *)
(* its except and finally clauses.                                         *)
LeadersStep ==
    /\ mpc = "loop"
    /\ idx < metric_limit
    /\ \E outcome \in LeaderOutcomes :
          /\ pages' = Append(pages, outcome)
          /\ metric_leaders' =
                IF outcome.ok
                THEN metric_leaders \o Unique(outcome.leaders, metric_leaders)
                ELSE metric_leaders
          /\ slept' = IF SleepAfter(idx, outcome.ok)
                      THEN slept \cup {idx}
                      ELSE slept
    /\ idx' = idx + 1
    /\ mpc' = IF idx + 1 < metric_limit THEN "loop" ELSE "return"
    /\ UNCHANGED <<file, start_file, pc, halt, last_ranks, last_players, mi,
                   branch, boundary, search_vars, fetch_vars, count_vars,
                   steady, io, saves, submit_vars>>

(* fetch_all_leaders, line 528, and main, lines 562-566: the list is       *)
(* returned and handed to submit_updates, lines 532-533.                   *)
SubmitLeaders ==
    /\ mpc = "return"
    /\ mpc' = "submitted"
    /\ sub' = "create"
    /\ leaders' = metric_leaders
    /\ client' = "open"
    /\ UNCHANGED <<file, start_file, pc, halt, last_ranks, last_players, mi,
                   branch, boundary, search_vars, fetch_vars, count_vars,
                   steady, io, saves, group, update, attempted, idx,
                   metric_leaders, pages, slept>>

NextMain ==
    \/ LeadersStep
    \/ SubmitLeaders
    \/ GroupCreate
    \/ GroupUpdate
    \/ GroupDelete
    \/ ClientClose

SpecMain == InitMain /\ [][NextMain]_vars

---------------------------------------------------------------------------
(* binary_search on its own, lines 33-57, against a table that may change  *)
(* between two fetches, so that the answers follow no order.               *)

MaxWidth == 40

(* The brackets binary_search is called with: any low of Lows and any high *)
(* from low - 1 (no index at all) to low + MaxWidth.                       *)
Lows == {0, 1300, MAX_RANK}

(* The call of binary_search: lines 35-37.                                 *)
InitSearch ==
    /\ file = MissingFile
    /\ start_file = file
    /\ steady = EmptyDict
    /\ pc = "binary_search"
    /\ halt = "none"
    /\ last_ranks = EmptyDict
    /\ last_players = <<>>
    /\ mi = 1
    /\ branch = "fresh"
    /\ boundary = 0
    /\ new_low = 0
    /\ new_high = 0
    /\ low \in Lows
    /\ high \in (low - 1)..(low + MaxWidth)
    /\ _low = low
    /\ _high = high
    /\ last_player = Unbound
    /\ fetched = <<>>
    /\ rested = TRUE
    /\ hasty = FALSE
    /\ expansions = 0
    /\ probes = 0
    /\ io = "none"
    /\ saves = 0
    /\ sub = "idle"
    /\ leaders = <<>>
    /\ group = "none"
    /\ update = "none"
    /\ attempted = FALSE
    /\ client = "none"
    /\ IdleMain

(* The table before the next fetch: empty, ending at the index about to be *)
(* fetched (a page of one entry), or reaching past the bracket (a full     *)
(* page).  Whatever the fetches before were answered.                      *)
TableChanges ==
    /\ Running
    /\ pc = "binary_search"
    /\ _low <= _high
    /\ boundary' \in {0, (_low + _high) \div 2, high + PLAYERS_PER_PAGE}
    /\ UNCHANGED <<file, start_file, pc, halt, last_ranks, last_players, mi,
                   branch, search_vars, fetch_vars, count_vars, steady, io,
                   saves, submit_vars, main_vars>>

NextSearch ==
    \/ TableChanges
    \/ BinarySearchStep
    \/ BinarySearchReturn

SpecSearch == InitSearch /\ [][NextSearch]_vars

---------------------------------------------------------------------------
(* Properties of find_last_players.                                        *)

(* C1: for every monotonic table (data at index i iff i <= boundary) and   *)
(* every state of the checkpoint, the search of a metric ends with the     *)
(* player whose rank is exactly the boundary.  Stated for the tables that  *)
(* hold at least one player.                                               *)
C1_Original ==
    boundary >= 1 =>
        /\ halt # "UnboundLocalError"
        /\ (pc = "found" => last_player = boundary)

(* C2: a fetch that raises during one metric's search does not end the     *)
(* run: the exception never leaves find_last_players.                      *)
C2_Original == halt # "FetchFailure"

(* C3: between any two successive fetches of a run the DELAY sleep has     *)
(* elapsed.                                                                *)
C3_Original == ~hasty

(* C4: no fetch is issued at an index outside 0..MAX_RANK.                 *)
C4_Original ==
    \A k \in 1..Len(fetched) : fetched[k] >= 0 /\ fetched[k] <= MAX_RANK

(* C5: a run interrupted while it saves leaves the complete previous       *)
(* content or a complete new mapping in the file, never an empty one.      *)
C5_Original ==
    halt = "killed" => (file = start_file \/ file.kind = "json")

(* C6: as long as the run has not begun to save (in particular while any   *)
(* metric is still being searched, and if it is killed or fails there),    *)
(* the checkpoint file holds what it held when the run began.              *)
C6_FileUntouchedBeforeSave ==
    pc \notin {"write", "done", "submitted"} => file = start_file

C6_Witness ==
    /\ halt = "killed"
    /\ pc = "binary_search"
    /\ mi = 2
    /\ start_file.kind = "json"
    /\ "Bryophyta" \in DOMAIN start_file.data
    /\ last_ranks["Bryophyta"] # start_file.data["Bryophyta"]
    /\ file = start_file

(* C7: a completed run leaves, for every metric the file held a rank of    *)
(* when the run began, a rank at least as large.                           *)
C7_RanksNeverDecrease ==
    (pc = "done" /\ start_file.kind = "json") =>
        \A m \in DOMAIN start_file.data :
            /\ m \in DOMAIN file.data
            /\ file.data[m] >= start_file.data[m]

C7_Witness ==
    /\ pc = "done"
    /\ start_file.kind = "json"
    /\ DOMAIN start_file.data = MetricNames
    /\ file.data["Bryophyta"] > start_file.data["Bryophyta"]
    /\ file.data["Sailing"] = start_file.data["Sailing"]

(* The rank the completed run kept for the metric at position i.           *)
StoredRank(i) == file.data[NOT_ALL_METRICS[i]]

(* The metric at position i began the run with MAX_RANK as its checkpoint. *)
StartedAtCeiling(i) ==
    /\ start_file.kind = "json"
    /\ NOT_ALL_METRICS[i] \in DOMAIN start_file.data
    /\ start_file.data[NOT_ALL_METRICS[i]] = MAX_RANK

C9_Original ==
    ~(halt = "UnboundLocalError" /\ branch = "fresh" /\ boundary = 0)

(* C10: when the probe of new_bounds finds data and the next probe would   *)
(* lie beyond MAX_RANK, the expansion ends instead of probing further.     *)
C10_Original ==
    [][(Running /\ pc = "new_bounds" /\ Running' /\ pc' = "new_bounds")
          => new_high' <= MAX_RANK]_vars


(* What the checkpoint held for the current metric when its search began.  *)
PriorRank == last_ranks[NOT_ALL_METRICS[mi]]

(* new_bounds has just returned its bracket to find_last_players.          *)
BoundsReturned ==
    /\ Running
    /\ pc = "binary_search"
    /\ branch = "expanded"
    /\ probes = 0

(* C11: for a monotonic table with boundary N and a prior rank p <= N,     *)
(* new_bounds returns a bracket with low <= N < high after exactly         *)
(* (N - p) \div RANK_SKIP + 1 fetches, whatever the magnitude of N; for    *)
(* N = 1342 and p = 1300 that is one fetch, at 26300, and the bracket      *)
(* [1300, 26300].                                                          *)
C11_BracketStraddles ==
    (BoundsReturned /\ PriorRank <= boundary) =>
        /\ low <= boundary
        /\ boundary < high
        /\ expansions = (boundary - PriorRank) \div RANK_SKIP + 1
        /\ (boundary = 1342 /\ PriorRank = 1300) =>
              /\ expansions = 1
              /\ fetched = <<26300>>
              /\ <<low, high>> = <<1300, 26300>>

C11_Witness ==
    /\ BoundsReturned
    /\ boundary = 1342
    /\ PriorRank = 1300
    /\ <<low, high>> = <<1300, 26300>>

(* C12: on tables that do not change, a search that starts from the rank   *)
(* an earlier run stored reports that same rank again, and new_bounds      *)
(* issues at most one fetch for it.                                        *)
C12_Original ==
    (Running /\ pc = "found" /\ branch # "fresh") =>
        /\ last_player = PriorRank
        /\ expansions <= 1

(* The page the latest fetch of the run answered with.                     *)
LatestPage == fetch_hiscore_players(boundary, fetched[1])

(* C13: in binary_search a fetch answered with at least one and fewer than *)
(* PLAYERS_PER_PAGE entries ends the loop at once, whatever _low and _high *)
(* are; from there no further fetch is issued and the player returned is   *)
(* the last entry of that page.                                            *)
C13_ShortPageEndsSearch ==
    [][/\ (/\ Running /\ Running'
           /\ pc = "binary_search"
           /\ probes' = probes + 1
           /\ Len(LatestPage') >= 1
           /\ Len(LatestPage') < PLAYERS_PER_PAGE)
          => /\ pc' = "return"
             /\ last_player' = LatestPage'[Len(LatestPage')]
       /\ (Running /\ Running' /\ pc = "return")
          => /\ pc' = "found"
             /\ probes' = probes
             /\ fetched' = fetched
             /\ last_player' = last_player]_vars

C13_Witness ==
    /\ Running
    /\ pc = "found"
    /\ _low <= _high
    /\ probes >= 2
    /\ Len(LatestPage) >= 1
    /\ Len(LatestPage) < PLAYERS_PER_PAGE
    /\ last_player = LatestPage[Len(LatestPage)]

(* C14: the checkpoint is written once per run, after the search of the    *)
(* last metric has concluded, and submit_updates is called only after      *)
(* that write, with every player the run collected.                        *)
C14_SaveOnceThenSubmit ==
    /\ saves <= 1
    /\ saves = 1 =>
          /\ mi = Len(NOT_ALL_METRICS) + 1
          /\ Len(last_players) = Len(NOT_ALL_METRICS)
          /\ file = JsonFile(last_ranks)
    /\ pc = "done" => saves = 1
    /\ sub # "idle" =>
          /\ saves = 1
          /\ leaders = last_players
          /\ Len(leaders) = Len(NOT_ALL_METRICS)

C14_Witness ==
    /\ sub = "returned"
    /\ saves = 1
    /\ Len(leaders) = Len(NOT_ALL_METRICS)
    /\ leaders[1] # leaders[2]
    /\ file # start_file

(* C15: once the system has refused the run's access to the checkpoint     *)
(* file, for reading at the start or for writing at the end, the run has   *)
(* failed with that error and submit_updates is not called with anything.  *)
C15_FileErrorFailsRun ==
    io # "none" =>
        /\ halt = "OSError"
        /\ pc \notin {"done", "submitted"}
        /\ sub = "idle"
        /\ leaders = <<>>
        /\ io = "read" => last_players = <<>>

C15_Witness ==
    /\ io = "write"
    /\ halt = "OSError"
    /\ pc = "write"
    /\ Len(last_players) = Len(NOT_ALL_METRICS)
    /\ sub = "idle"

(* C16: for a metric whose stored rank is MAX_RANK new_bounds is not       *)
(* called and binary_search runs on the bracket [MAX_RANK, MAX_RANK]: it   *)
(* issues exactly one fetch, at index MAX_RANK.                            *)
C16_CeilingSingleFetch ==
    branch = "ceiling" =>
        /\ pc \in {"binary_search", "return", "found"} => PriorRank = MAX_RANK
        /\ expansions = 0
        /\ <<low, high>> = <<MAX_RANK, MAX_RANK>>
        /\ probes <= 1
        /\ probes = 1 => fetched = <<MAX_RANK>>
        /\ pc \in {"return", "found"} => probes = 1
        /\ (Running /\ pc = "binary_search" /\ probes = 1) => _low > _high

C16_Witness ==
    /\ branch = "ceiling"
    /\ pc = "found"
    /\ probes = 1
    /\ expansions = 0
    /\ fetched = <<MAX_RANK>>
    /\ last_player > MAX_RANK

(* The table answers a fetch at index i with at least one entry.  The      *)
(* table is monotonic: if it has data at an index it has data at every     *)
(* smaller index, so a range has data throughout iff its top index has,    *)
(* and has none throughout iff its bottom index has none.                  *)
HasData(i) == fetch_hiscore_players(boundary, i) # <<>>

DataThroughout(a, b) == a > b \/ HasData(b)

NoDataThroughout(a, b) == a > b \/ ~HasData(a)

LastEntryAt(i) ==
    fetch_hiscore_players(boundary, i)[Len(fetch_hiscore_players(boundary, i))]

(* C17: while binary_search runs on a monotonic table, every index of the  *)
(* bracket [low, high] below _low has data and every index above _high     *)
(* has none; a search that ends with _low > _high and returns a player     *)
(* returns the last entry of the page at _low - 1, the largest index of    *)
(* the bracket that has data.                                              *)
C17_BracketInvariant ==
    (Running /\ pc \in {"binary_search", "return", "found"}) =>
        /\ low <= _low
        /\ _high <= high
        /\ DataThroughout(low, _low - 1)
        /\ NoDataThroughout(_high + 1, high)
        /\ last_player # Unbound =>
              /\ _low > low
              /\ last_player = LastEntryAt(_low - 1)
        /\ (pc = "found" /\ _low > _high) =>
              /\ _low = _high + 1
              /\ HasData(_high)
              /\ _high = high \/ ~HasData(_high + 1)
              /\ last_player = LastEntryAt(_high)

C17_Witness ==
    /\ Running
    /\ pc = "found"
    /\ _low > _high
    /\ probes >= 3
    /\ _low > low + 1
    /\ Len(LatestPage) = PLAYERS_PER_PAGE
    /\ last_player = LastEntryAt(_high)

---------------------------------------------------------------------------
(* Properties of fetch_all_leaders and submit_updates.                     *)

(* The username u is in the list s.                                        *)
Listed(u, s) == \E q \in 1..Len(s) : s[q] = u

(* C18: a metric whose fetch raises is skipped and nothing else: every     *)
(* metric up to the limit is still tried, the leaders of every metric      *)
(* that did not fail are in the list, and the sleep before the next        *)
(* metric has run after every metric but the last, failed or not.          *)
C18_FailureSkipsOneMetric ==
    /\ Len(pages) = idx
    /\ mpc \in {"return", "submitted"} => idx = metric_limit
    /\ \A k \in 1..Len(pages) :
          pages[k].ok =>
             \A j \in 1..Len(pages[k].leaders) :
                Listed(pages[k].leaders[j], metric_leaders)
    /\ slept = {i \in 0..(idx - 1) : i < metric_limit - 1}

C18_Witness ==
    /\ mpc = "submitted"
    /\ ~pages[1].ok
    /\ ~pages[2].ok
    /\ pages[3].ok
    /\ leaders = pages[3].leaders
    /\ Len(leaders) = MaxPage
    /\ slept = {0, 1}

(* C19: when submit_updates returns the client has been closed, and if     *)
(* the group was created its deletion has been attempted, however the      *)
(* update step ended.                                                      *)
C19_Original ==
    sub = "returned" =>
        /\ client = "closed"
        /\ group # "none" => attempted

(* C20: no username occurs twice in the list fetch_all_leaders             *)
(* accumulates.                                                            *)
C20_Original ==
    \A a, b \in 1..Len(metric_leaders) :
       a # b => metric_leaders[a] # metric_leaders[b]

---------------------------------------------------------------------------
(* Termination of binary_search.                                           *)

(* The least k with 2^k >= n.                                              *)
RECURSIVE CeilLog2(_)
CeilLog2(n) == IF n <= 1 THEN 0 ELSE 1 + CeilLog2((n + 1) \div 2)

(* C21: whatever the bracket and whatever the fetches answer, every pass   *)
(* of the loop of binary_search whose fetch answers strictly shrinks       *)
(* [_low, _high], and the fetches issued so far plus those the remaining   *)
(* bracket can still take never exceed CeilLog2(high - low + 2): the loop  *)
(* ends within that many fetches.  A fetch that raises ends the search     *)
(* there and then, within the same number.                                 *)
C21_SearchShrinks ==
    [][(pc = "binary_search" /\ probes' = probes + 1) =>
          /\ _low <= _high
          /\ probes' <= CeilLog2(high - low + 2)
          /\ Running' =>
                /\ _high' - _low' < _high - _low
                /\ _high' - _low' >= -1
                /\ probes' + CeilLog2(_high' - _low' + 2)
                      <= CeilLog2(high - low + 2)]_vars

C21_Witness ==
    /\ Running
    /\ pc = "found"
    /\ _low = _high + 1
    /\ _high < high
    /\ last_player = _high + PLAYERS_PER_PAGE - 1
    /\ probes >= 3
    /\ probes = CeilLog2(high - low + 2)
====
